---- MODULE Spec2Model ----
(***************************************************************************)
(* Authentication and identity-verification flow of the Health App:        *)
(* the backend routes /signup, /login, /refresh, /logout,                  *)
(* /upload-verification, /sync-firebase-user and /profile over the         *)
(* relational Identity Store, and the mobile AuthService over the          *)
(* identity provider and the document store.                               *)
(*                                                                         *)
(* Strings that the code inspects (emails, passwords, names, allow-lists)  *)
(* are sequences of one-character strings, so that split, trim,            *)
(* toLowerCase and length are computed as the code computes them.          *)
(***************************************************************************)
EXTENDS Integers, Sequences, FiniteSets, TLC

\* undefined / null / SQL NULL, per type of the value it stands in for
NULL == "NULL"
NoId == 0
NoTime == -1
NoHash == <<"null">>
Unset == <<"undefined">>

(* ----------------------------- bounds ---------------------------------- *)
\* request handlers that can be in flight at once
MaxReq == 2
\* Session rows the store holds at once
MaxSessions == 2
\* seconds the clock advances one by one within a week
MaxSec == 1
\* last instant of the clock
MaxTime == 604801

(* ------------------------ program constants ---------------------------- *)
MinPassword == 6
MinFullName == 2
SessionDays == 7
DaySeconds == 86400

(* --------------------------- string helpers ---------------------------- *)
\* String.prototype.toLowerCase, one character
LowerChar(c) ==
  CASE c = "H" -> "h"
    [] c = "M" -> "m"
    [] c = "X" -> "x"
    [] OTHER -> c

toLowerCase(s) == [i \in 1..Len(s) |-> LowerChar(s[i])]

\* String.toUpperCase, one character
UpperChar(c) ==
  CASE c = "h" -> "H"
    [] c = "m" -> "M"
    [] c = "x" -> "X"
    [] OTHER -> c

toUpperCase(s) == [i \in 1..Len(s) |-> UpperChar(s[i])]

\* String.prototype.trim
RECURSIVE trim(_)
trim(s) ==
  IF s = <<>> THEN s
  ELSE IF Head(s) = " " THEN trim(Tail(s))
  ELSE IF s[Len(s)] = " " THEN trim(SubSeq(s, 1, Len(s) - 1))
  ELSE s

\* String.prototype.split(sep): the pieces between the separators
RECURSIVE split(_, _)
split(s, sep) ==
  IF \A i \in 1..Len(s) : s[i] # sep THEN <<s>>
  ELSE LET k == CHOOSE i \in 1..Len(s) :
                  s[i] = sep /\ \A j \in 1..(i - 1) : s[j] # sep
       IN  <<SubSeq(s, 1, k - 1)>> \o split(SubSeq(s, k + 1, Len(s)), sep)

\* z.string().email(): one "@" with a non-empty local part and domain
IsEmail(s) ==
  LET parts == split(s, "@")
  IN  Len(parts) = 2 /\ parts[1] # <<>> /\ parts[2] # <<>>

(* ------------------------------ schema --------------------------------- *)
Role == {"PATIENT", "DOCTOR", "STAFF", "ADMIN"}
AccountStatus == {"PENDING_VERIFICATION", "ACTIVE", "SUSPENDED", "DELETED"}
VerificationStatus == {"PENDING", "APPROVED", "REJECTED"}

\* rows of the organizations table (referenced by staff.organizationId)
organizations == {"ORG001"}

(* ------------------------------ inputs --------------------------------- *)
EmailListed == <<"a", "@", "H">>
EmailOther == <<"c", "@", "m">>
EmailBad == <<"c", "m">>
Emails == {EmailListed, EmailOther}

PwGood == <<"s", "e", "c", "r", "e", "t">>
PwOther == <<"h", "u", "n", "t", "e", "r">>
PwShort == <<"a", "b", "c">>

NameOk == <<"A", "n", "n">>

VARIABLES
  env,        \* process.env: the configured allow-lists and token expiry
  now,        \* the system clock, in seconds
  users,      \* users table: sequence of rows, id = index
  patients,   \* patients table: set of rows
  doctors,    \* doctors table: set of rows
  staff,      \* staff table: set of rows
  sessions,   \* sessions table: set of rows
  issued,     \* refresh credentials that login responses handed to clients
  revoked,    \* refresh credentials whose Session a logout deleted
  req,        \* the request handlers in flight, between two awaits
  last,       \* the request answered last, with its response
  registry,   \* Credential Registry: verified_doctors, verified_organizations
  seed,       \* the seeding script: its position and the writes that failed
  fbAuth,     \* identity-provider accounts of the mobile client
  fsUsers,    \* documents of the `users` collection
  fsRoles,    \* documents of the patients / doctors / staff collections
  call,       \* the AuthService call in flight on the device
  result      \* the AuthService call that ended last, with its outcome

backend == <<env, now, users, patients, doctors, staff, sessions, issued, revoked,
             req, last>>

mobile == <<registry, seed, fbAuth, fsUsers, fsRoles, call, result>>

vars == <<backend, mobile>>

Slots == 1..MaxReq

Idle == [op |-> "idle", pc |-> "idle", body |-> NULL, loc |-> NULL]

NoResponse == [op |-> "none", body |-> NULL, loc |-> NULL,
               status |-> 0, msg |-> NULL, out |-> NULL]

\* a handler slot that can take the next request
Free(r) == req[r] = Idle

\* res.status(st).json(...) of a handler that ran without leaving an await
\* pending: the response is recorded and no slot is occupied
Answer(op, body, loc, st, m, o) ==
  last' = [op |-> op, body |-> body, loc |-> loc,
           status |-> st, msg |-> m, out |-> o]

\* res.status(st).json(...) of the handler in slot r, which ends
Respond(r, st, m, o) ==
  /\ Answer(req[r].op, req[r].body, req[r].loc, st, m, o)
  /\ req' = [req EXCEPT ![r] = Idle]

\* the handler in slot r stops at an await
Await(r, op, body, loc, pc) ==
  /\ req' = [req EXCEPT ![r] = [op |-> op, pc |-> pc, body |-> body,
                                loc |-> loc]]
  /\ UNCHANGED last

\* `x || d` on an optional body field
Or(x, d) == IF x = NULL \/ x = "" THEN d ELSE x

\* `process.env.X || ''`
EnvOr(x) == IF x = Unset THEN <<>> ELSE x

(* --------------------------- Identity Store ---------------------------- *)
\* prisma.user.findUnique({ where: { email } }): the row id, or NoId
FindByEmail(email) ==
  IF \E i \in DOMAIN users : users[i].email = email
  THEN CHOOSE i \in DOMAIN users : users[i].email = email
  ELSE NoId

\* prisma.user.findUnique({ where: { firebaseUid } }): the row id, or NoId
FindByFirebaseUid(uid) ==
  IF \E i \in DOMAIN users : users[i].firebaseUid = uid
  THEN CHOOSE i \in DOMAIN users : users[i].firebaseUid = uid
  ELSE NoId

\* the users table without its unique index on email
EmailTaken_NoIndex(row) == FALSE

\* users_email_key
EmailTaken(row) == \E i \in DOMAIN users : users[i].email = row.email

\* the unique indexes and foreign keys a nested user.create must satisfy
ConstraintViolation(row, prof) ==
  \/ EmailTaken(row)
  \/ row.firebaseUid # NULL
       /\ \E i \in DOMAIN users : users[i].firebaseUid = row.firebaseUid
  \/ row.role = "DOCTOR" /\ prof.licenseNumber # NULL
       /\ \E d \in doctors : d.licenseNumber = prof.licenseNumber
  \/ row.role = "STAFF" /\ prof.organizationId # NULL
       /\ prof.organizationId \notin organizations

\* the profile row of a nested create, keyed by the new user's id
ProfileRow(id, prof) == [userId |-> id] @@ prof

\* a create that writes the users row without its profile row
InsertUser_NoProfile(row, prof) ==
  /\ users' = Append(users, row)
  /\ UNCHANGED <<patients, doctors, staff>>

\* prisma.user.create with a nested profile: one transaction
InsertUser(row, prof) ==
  LET id == Len(users) + 1
  IN  /\ users' = Append(users, row)
      /\ patients' = IF row.role = "PATIENT"
                     THEN patients \cup {ProfileRow(id, prof)} ELSE patients
      /\ doctors' = IF row.role = "DOCTOR"
                    THEN doctors \cup {ProfileRow(id, prof)} ELSE doctors
      /\ staff' = IF row.role = "STAFF"
                  THEN staff \cup {ProfileRow(id, prof)} ELSE staff

\* user.patient || user.doctor || user.staff of a row read with `include`
ProfilesOf(id) ==
  {p \in patients \cup doctors \cup staff : p.userId = id}

(* ------------------------------ /signup -------------------------------- *)
\* signupSchema.parse succeeds
ValidSignup(data) ==
  /\ IsEmail(data.email)
  /\ Len(data.password) >= MinPassword
  /\ data.role \in {"PATIENT", "DOCTOR", "STAFF"}
  /\ Len(data.fullName) >= MinFullName

\* a domain check that lets every domain through
isVerifiedDomain_Open(email, role) == TRUE

\* a domain check that compares the domain as it was typed
isVerifiedDomain_CaseSensitive(email, role) ==
  LET domain == split(email, "@")[2]
      listed(list) == \E i \in 1..Len(list) :
                         toLowerCase(trim(list[i])) = domain
  IN  IF role = "DOCTOR"
      THEN listed(split(EnvOr(env.DOCTOR_EMAIL_DOMAINS), ","))
      ELSE IF role = "STAFF"
      THEN listed(split(EnvOr(env.ADMIN_EMAIL_DOMAINS), ","))
      ELSE TRUE

isVerifiedDomain(email, role) ==
  LET domain == toLowerCase(split(email, "@")[2])
      listed(list) == \E i \in 1..Len(list) :
                         toLowerCase(trim(list[i])) = domain
  IN  IF role = "DOCTOR"
      THEN listed(split(EnvOr(env.DOCTOR_EMAIL_DOMAINS), ","))
      ELSE IF role = "STAFF"
      THEN listed(split(EnvOr(env.ADMIN_EMAIL_DOMAINS), ","))
      ELSE TRUE

\* the emails and roles isVerifiedDomain is called with
DomainEmails == {EmailListed, EmailOther, <<"b", "@", "x">>}
DomainRoles == {"PATIENT", "DOCTOR", "STAFF"}

\* a call of isVerifiedDomain(email, role), with what it returns
IsVerifiedDomainCall ==
  /\ \E email \in DomainEmails, role \in DomainRoles :
       Answer("isVerifiedDomain", [email |-> email, role |-> role], NULL, 0,
              NULL, isVerifiedDomain(email, role))
  /\ UNCHANGED <<env, now, users, patients, doctors, staff, sessions, issued,
                 revoked, req>>
  /\ UNCHANGED mobile

\* a gate that calls isVerifiedDomain for every role
SignupGate_Eager(data) ==
  [evaluated |-> TRUE, pass |-> isVerifiedDomain(data.email, data.role)]

\* the domain gate of /signup, with whether isVerifiedDomain was evaluated
SignupGate(data) ==
  IF data.role = "DOCTOR" \/ data.role = "STAFF"
  THEN [evaluated |-> TRUE, pass |-> isVerifiedDomain(data.email, data.role)]
  ELSE [evaluated |-> FALSE, pass |-> TRUE]

\* bcrypt.hash (the salt is left out)
Hash(password) == <<"bcrypt", password>>

SignupStatus(role) ==
  IF role = "PATIENT" THEN "ACTIVE" ELSE "PENDING_VERIFICATION"

SignupRow(data) ==
  [email |-> data.email, passwordHash |-> Hash(data.password),
   role |-> data.role, emailVerified |-> FALSE,
   accountStatus |-> SignupStatus(data.role),
   lastLogin |-> NoTime, firebaseUid |-> NULL]

DoctorProfile(data) ==
  [fullName |-> data.fullName,
   specialization |-> Or(data.specialization, "General Medicine"),
   licenseNumber |-> data.licenseNumber,
   medicalCouncil |-> data.medicalCouncil,
   verificationStatus |-> "PENDING", verificationDocument |-> NULL]

StaffProfile(data) ==
  [fullName |-> data.fullName, organizationId |-> data.organizationId,
   employeeId |-> data.employeeId, department |-> data.department,
   verificationStatus |-> "PENDING", verificationDocument |-> NULL]

PatientProfile(data) == [fullName |-> data.fullName]

SignupProfile(data) ==
  CASE data.role = "PATIENT" -> PatientProfile(data)
    [] data.role = "DOCTOR" -> DoctorProfile(data)
    [] data.role = "STAFF" -> StaffProfile(data)

Body(email, password, role, fullName, f) ==
  [email |-> email, password |-> password, role |-> role,
   fullName |-> fullName,
   specialization |-> f[1], licenseNumber |-> f[2], medicalCouncil |-> f[3],
   organizationId |-> f[4], employeeId |-> f[5], department |-> f[6]]

NoFields == <<NULL, NULL, NULL, NULL, NULL, NULL>>
DoctorFull == <<"Cardiology", "MH12345", "MCI", NULL, NULL, NULL>>
StaffFull == <<NULL, NULL, NULL, "ORG001", "EMP001", "Ward">>
StaffNoOrg == <<NULL, NULL, NULL, "ORG999", "EMP001", "Ward">>

SignupBodies ==
  { Body(EmailListed, PwGood, "PATIENT", NameOk, NoFields),
    Body(EmailOther, PwGood, "PATIENT", NameOk, NoFields),
    Body(EmailOther, PwShort, "PATIENT", NameOk, NoFields),
    Body(EmailListed, PwGood, "DOCTOR", NameOk, DoctorFull),
    Body(EmailListed, PwGood, "DOCTOR", NameOk, NoFields),
    Body(EmailOther, PwGood, "DOCTOR", NameOk, DoctorFull),
    Body(EmailListed, PwGood, "STAFF", NameOk, StaffFull),
    Body(EmailListed, PwGood, "STAFF", NameOk, NoFields),
    Body(EmailOther, PwGood, "STAFF", NameOk, StaffFull) }

\* POST /signup up to the await of bcrypt.hash: parse, pre-check, domain gate
SignupCheck(r, bodies) ==
  /\ Free(r)
  /\ \E data \in bodies :
       LET gate == SignupGate(data)
           skipped == [evaluated |-> FALSE]
           reached == [evaluated |-> gate.evaluated]
       IN  IF ~ValidSignup(data)
           THEN /\ Answer("signup", data, skipped, 400, "ZodError", NULL)
                /\ UNCHANGED req
           ELSE IF FindByEmail(data.email) # NoId
           THEN /\ Answer("signup", data, skipped, 400,
                          "Email already registered", NULL)
                /\ UNCHANGED req
           ELSE IF ~gate.pass
           THEN /\ Answer("signup", data, reached, 400,
                          "institutional email required", NULL)
                /\ UNCHANGED req
           ELSE Await(r, "signup", data, reached, "create")
  /\ UNCHANGED <<env, now, users, patients, doctors, staff, sessions, issued, revoked>>
  /\ UNCHANGED mobile

\* POST /signup from prisma.user.create to the response
SignupCreate(r) ==
  /\ req[r].op = "signup" /\ req[r].pc = "create"
  /\ LET data == req[r].body
         row == SignupRow(data)
         prof == SignupProfile(data)
     IN  IF ConstraintViolation(row, prof)
         THEN /\ Respond(r, 500, "Signup failed", NULL)
              /\ UNCHANGED <<users, patients, doctors, staff>>
         ELSE /\ InsertUser(row, prof)
              /\ Respond(r, 201, "created",
                         [id |-> Len(users) + 1, email |-> row.email,
                          role |-> row.role,
                          accountStatus |-> row.accountStatus])
  /\ UNCHANGED <<env, now, sessions, issued, revoked>>
  /\ UNCHANGED mobile

(* ------------------------------- /login -------------------------------- *)
\* the `ms` reading of an expiresIn setting <<n, unit>>, in seconds
UnitSeconds(unit) ==
  CASE unit = "s" -> 1
    [] unit = "m" -> 60
    [] unit = "d" -> DaySeconds

Seconds(span) == span[1] * UnitSeconds(span[2])

\* process.env.JWT_REFRESH_EXPIRY || '7d'
RefreshExpiry == IF env.JWT_REFRESH_EXPIRY = Unset THEN <<7, "d">>
                 ELSE env.JWT_REFRESH_EXPIRY

\* process.env.JWT_ACCESS_EXPIRY || '15m'
AccessExpiry == IF env.JWT_ACCESS_EXPIRY = Unset THEN <<15, "m">>
                ELSE env.JWT_ACCESS_EXPIRY

\* jwt.sign(payload, secret, { expiresIn })
SignRefresh(userId) ==
  [userId |-> userId, iat |-> now, exp |-> now + Seconds(RefreshExpiry),
   key |-> "JWT_REFRESH_SECRET"]

SignAccess(userId, role) ==
  [userId |-> userId, role |-> role, iat |-> now,
   exp |-> now + Seconds(AccessExpiry), key |-> "JWT_ACCESS_SECRET"]

\* a comparison that accepts every password
Compare_Any(password, hash) == TRUE

\* bcrypt.compare(password, hash) once it resolves
Compare(password, hash) == hash = Hash(password)

\* expiresAt.setDate(expiresAt.getDate() + 7)
SessionExpiresAt == now + SessionDays * DaySeconds

LoginPasswords == {PwGood, PwOther}
LoginEmails == Emails \cup {EmailBad}

\* the outcome of /login up to the status gate, on the row read by findUnique;
\* bcrypt.compare rejects when the row carries no passwordHash (a row made by
\* /sync-firebase-user), which lands in the catch block
LoginGate(id, password) ==
  IF id = NoId THEN [status |-> 401, msg |-> "Invalid credentials"]
  ELSE IF users[id].passwordHash = NoHash
  THEN [status |-> 500, msg |-> "Login failed"]
  ELSE IF ~Compare(password, users[id].passwordHash)
  THEN [status |-> 401, msg |-> "Invalid credentials"]
  ELSE IF users[id].accountStatus = "SUSPENDED"
  THEN [status |-> 403, msg |-> "Account suspended"]
  ELSE IF users[id].accountStatus = "PENDING_VERIFICATION"
  THEN [status |-> 403, msg |-> "Account pending verification"]
  ELSE [status |-> 200, msg |-> "proceed"]

\* POST /login up to the call of prisma.session.create:
\* parse, findUnique, bcrypt.compare, status gate, jwt.sign
LoginCheck(r, emails) ==
  /\ Free(r)
  /\ Cardinality(sessions) < MaxSessions
  /\ Cardinality(issued) < MaxSessions
  /\ \E email \in emails, password \in LoginPasswords :
       LET id == FindByEmail(email)
           body == [email |-> email, password |-> password]
           gate == LoginGate(id, password)
       IN  IF ~IsEmail(email)
           THEN /\ Answer("login", body, NULL, 400, "ZodError", NULL)
                /\ UNCHANGED req
           ELSE IF gate.status # 200
           THEN /\ Answer("login", body, [id |-> id], gate.status, gate.msg,
                          NULL)
                /\ UNCHANGED req
           ELSE Await(r, "login", body,
                      [id |-> id, status |-> users[id].accountStatus,
                       accessToken |-> SignAccess(id, users[id].role),
                       refreshToken |-> SignRefresh(id),
                       expiresAt |-> SessionExpiresAt], "session")
  /\ UNCHANGED <<env, now, users, patients, doctors, staff, sessions, issued, revoked>>
  /\ UNCHANGED mobile

\* POST /login: prisma.session.create under sessions_refreshToken_key
LoginSession(r) ==
  /\ req[r].op = "login" /\ req[r].pc = "session"
  /\ LET l == req[r].loc
     IN  IF \E s \in sessions : s.refreshToken = l.refreshToken
         THEN /\ Respond(r, 500, "Login failed", NULL)
              /\ UNCHANGED sessions
         ELSE /\ sessions' = sessions \cup
                    {[userId |-> l.id, refreshToken |-> l.refreshToken,
                      expiresAt |-> l.expiresAt]}
              /\ req' = [req EXCEPT ![r].pc = "update"]
              /\ UNCHANGED last
  /\ UNCHANGED <<env, now, users, patients, doctors, staff, issued, revoked>>
  /\ UNCHANGED mobile

\* POST /login: prisma.user.update of lastLogin, then the response
LoginUpdate(r) ==
  /\ req[r].op = "login" /\ req[r].pc = "update"
  /\ LET l == req[r].loc
     IN  /\ users' = [users EXCEPT ![l.id].lastLogin = now]
         /\ issued' = issued \cup {l.refreshToken}
         /\ UNCHANGED revoked
         /\ Respond(r, 200, "ok",
                    [accessToken |-> l.accessToken,
                     refreshToken |-> l.refreshToken, id |-> l.id])
  /\ UNCHANGED <<env, now, patients, doctors, staff, sessions>>
  /\ UNCHANGED mobile

\* POST /login: prisma.user.update rejects (the database became unreachable
\* after the Session was created), and the catch block answers
LoginUpdateFails(r) ==
  /\ req[r].op = "login" /\ req[r].pc = "update"
  /\ Respond(r, 500, "Login failed", NULL)
  /\ UNCHANGED <<env, now, users, patients, doctors, staff, sessions, issued,
                 revoked>>
  /\ UNCHANGED mobile

(* ------------------------- /refresh and /logout ------------------------ *)
NoToken == [key |-> "undefined"]
Forged == [userId |-> 1, iat |-> 0, exp |-> MaxTime + 1, key |-> "forged"]

\* the refresh credentials a client can present
RefreshInputs == issued \cup {NoToken, Forged}

\* jwt.verify(token, process.env.JWT_REFRESH_SECRET) does not throw
Verifies(token) == token.key = "JWT_REFRESH_SECRET" /\ now < token.exp

\* a refresh that looks the Session up and does not read its expiresAt
RefreshResponse_NoExpiry(token) ==
  IF token = NoToken
  THEN [status |-> 401, msg |-> "Refresh token required", access |-> {}]
  ELSE IF ~Verifies(token)
  THEN [status |-> 401, msg |-> "Invalid refresh token", access |-> {}]
  ELSE IF \A s \in sessions : s.refreshToken # token
  THEN [status |-> 401, msg |-> "Invalid or expired refresh token",
        access |-> {}]
  ELSE LET s == CHOOSE s \in sessions : s.refreshToken = token
       IN  [status |-> 200, msg |-> "ok",
            access |-> {SignAccess(s.userId, users[s.userId].role)}]

\* a refresh that serves Active accounts only
RefreshResponse_Gated(token) ==
  IF token = NoToken
  THEN [status |-> 401, msg |-> "Refresh token required", access |-> {}]
  ELSE IF ~Verifies(token)
  THEN [status |-> 401, msg |-> "Invalid refresh token", access |-> {}]
  ELSE IF \A s \in sessions : s.refreshToken # token \/ s.expiresAt < now
  THEN [status |-> 401, msg |-> "Invalid or expired refresh token",
        access |-> {}]
  ELSE LET s == CHOOSE s \in sessions : s.refreshToken = token
       IN  IF users[s.userId].accountStatus # "ACTIVE"
           THEN [status |-> 403, msg |-> "Account suspended", access |-> {}]
           ELSE [status |-> 200, msg |-> "ok",
                 access |-> {SignAccess(s.userId, users[s.userId].role)}]

\* the response of POST /refresh
RefreshResponse(token) ==
  IF token = NoToken
  THEN [status |-> 401, msg |-> "Refresh token required", access |-> {}]
  ELSE IF ~Verifies(token)
  THEN [status |-> 401, msg |-> "Invalid refresh token", access |-> {}]
  ELSE IF \A s \in sessions : s.refreshToken # token \/ s.expiresAt < now
  THEN [status |-> 401, msg |-> "Invalid or expired refresh token",
        access |-> {}]
  ELSE LET s == CHOOSE s \in sessions : s.refreshToken = token
       IN  [status |-> 200, msg |-> "ok",
            access |-> {SignAccess(s.userId, users[s.userId].role)}]

\* POST /refresh
Refresh ==
  /\ \E token \in RefreshInputs :
       LET res == RefreshResponse(token)
       IN  Answer("refresh", [refreshToken |-> token], NULL,
                  res.status, res.msg, res.access)
  /\ UNCHANGED <<env, now, users, patients, doctors, staff, sessions, issued, revoked,
                 req>>
  /\ UNCHANGED mobile

\* a logout that reports the failed delete of an absent Session
Logout_Strict ==
  /\ \E token \in RefreshInputs :
       /\ revoked' = IF \E s \in sessions : s.refreshToken = token
                     THEN revoked \cup {token} ELSE revoked
       /\ sessions' = {s \in sessions : s.refreshToken # token}
       /\ IF token = NoToken \/ \E s \in sessions : s.refreshToken = token
          THEN Answer("logout", [refreshToken |-> token], NULL, 200,
                      "Logged out successfully", NULL)
          ELSE Answer("logout", [refreshToken |-> token], NULL, 500,
                      "Logout failed", NULL)
  /\ UNCHANGED <<env, now, users, patients, doctors, staff, issued, req>>
  /\ UNCHANGED mobile

\* POST /logout
Logout ==
  /\ \E token \in RefreshInputs :
       /\ revoked' = IF \E s \in sessions : s.refreshToken = token
                     THEN revoked \cup {token} ELSE revoked
       /\ sessions' = IF token # NoToken
                      THEN {s \in sessions : s.refreshToken # token}
                      ELSE sessions
       /\ Answer("logout", [refreshToken |-> token], NULL, 200,
                 "Logged out successfully", NULL)
  /\ UNCHANGED <<env, now, users, patients, doctors, staff, issued, req>>
  /\ UNCHANGED mobile

(* ------------------------- /upload-verification ------------------------ *)
Files == {NULL, "uploads/verification-1.pdf"}

\* an upload that also marks the profile as approved
WithDocument_Approves(rows, userId, file) ==
  {IF d.userId = userId
   THEN [d EXCEPT !.verificationDocument = file,
                  !.verificationStatus = "APPROVED"]
   ELSE d : d \in rows}

\* prisma.doctor.update / prisma.staff.update of verificationDocument
WithDocument(rows, userId, file) ==
  {IF d.userId = userId THEN [d EXCEPT !.verificationDocument = file] ELSE d :
     d \in rows}

\* POST /upload-verification
UploadVerification ==
  /\ \E userId \in 1..(Len(users) + 1), file \in Files :
       LET body == [userId |-> userId, file |-> file]
       IN  IF file = NULL
           THEN /\ Answer("upload", body, NULL, 400, "No file uploaded", NULL)
                /\ UNCHANGED <<doctors, staff>>
           ELSE IF userId \notin DOMAIN users
           THEN /\ Answer("upload", body, NULL, 404, "User not found", NULL)
                /\ UNCHANGED <<doctors, staff>>
           ELSE /\ doctors' = IF users[userId].role = "DOCTOR"
                              THEN WithDocument(doctors, userId, file)
                              ELSE doctors
                /\ staff' = IF users[userId].role = "STAFF"
                            THEN WithDocument(staff, userId, file)
                            ELSE staff
                /\ Answer("upload", body, NULL, 200, "uploaded", NULL)
  /\ UNCHANGED <<env, now, users, patients, sessions, issued, revoked, req>>
  /\ UNCHANGED mobile

(* ----------------- /sync-firebase-user and /profile -------------------- *)
\* what admin.auth().verifyIdToken yields; uid NULL when it rejects
FirebaseTokens ==
  { [uid |-> "u1", email_verified |-> "true"],
    [uid |-> "u2", email_verified |-> "undefined"],
    [uid |-> NULL, email_verified |-> "undefined"] }

SyncBody(uid, email, role, f) ==
  [firebaseUid |-> uid, email |-> email, role |-> role, fullName |-> NameOk,
   specialization |-> f[1], licenseNumber |-> f[2], medicalCouncil |-> f[3],
   organizationId |-> f[4], employeeId |-> f[5], department |-> f[6]]

SyncBodies ==
  { SyncBody("u1", EmailListed, "PATIENT", NoFields),
    SyncBody("u1", EmailOther, "STAFF", StaffNoOrg),
    SyncBody("u2", EmailOther, "DOCTOR", DoctorFull),
    SyncBody("u2", EmailListed, "STAFF", NoFields),
    SyncBody("u2", EmailBad, "PATIENT", NoFields) }

\* syncUserSchema.parse succeeds
ValidSync(data) ==
  /\ IsEmail(data.email)
  /\ data.role \in {"PATIENT", "DOCTOR", "STAFF"}
  /\ Len(data.fullName) >= MinFullName

\* a sync that takes every external account for verified and active
SyncRow_Trusting(data, token) ==
  [email |-> data.email, passwordHash |-> NoHash,
   role |-> data.role, emailVerified |-> TRUE,
   accountStatus |-> "ACTIVE",
   lastLogin |-> NoTime, firebaseUid |-> data.firebaseUid]

SyncRow(data, token) ==
  [email |-> data.email, passwordHash |-> NoHash,
   role |-> data.role, emailVerified |-> (token.email_verified = "true"),
   accountStatus |-> SignupStatus(data.role),
   lastLogin |-> NoTime, firebaseUid |-> data.firebaseUid]

\* the `user` object of the sync and profile responses
UserView(id) ==
  [id |-> id, firebaseUid |-> users[id].firebaseUid,
   email |-> users[id].email, role |-> users[id].role,
   accountStatus |-> users[id].accountStatus, profile |-> ProfilesOf(id)]

\* a sync that trusts the firebaseUid of the body
SyncCheck_TrustsBody(r, bodies) ==
  /\ Free(r)
  /\ \E token \in FirebaseTokens, data \in bodies :
       LET loc == [token |-> token]
           id == FindByFirebaseUid(data.firebaseUid)
       IN  IF token.uid = NULL
           THEN /\ Answer("sync", data, loc, 401, "Invalid token", NULL)
                /\ UNCHANGED req
           ELSE IF ~ValidSync(data)
           THEN /\ Answer("sync", data, loc, 400, "ZodError", NULL)
                /\ UNCHANGED req
           ELSE IF id # NoId
           THEN /\ Answer("sync", data, loc, 200, "User already synced",
                          UserView(id))
                /\ UNCHANGED req
           ELSE Await(r, "sync", data, loc, "create")
  /\ UNCHANGED <<env, now, users, patients, doctors, staff, sessions, issued,
                 revoked>>
  /\ UNCHANGED mobile

\* POST /sync-firebase-user up to prisma.user.create:
\* verifyFirebaseToken, parse, uid check, findUnique
SyncCheck(r, bodies) ==
  /\ Free(r)
  /\ \E token \in FirebaseTokens, data \in bodies :
       LET loc == [token |-> token]
           id == FindByFirebaseUid(data.firebaseUid)
       IN  IF token.uid = NULL
           THEN /\ Answer("sync", data, loc, 401, "Invalid token", NULL)
                /\ UNCHANGED req
           ELSE IF ~ValidSync(data)
           THEN /\ Answer("sync", data, loc, 400, "ZodError", NULL)
                /\ UNCHANGED req
           ELSE IF data.firebaseUid # token.uid
           THEN /\ Answer("sync", data, loc, 403, "Firebase UID mismatch",
                          NULL)
                /\ UNCHANGED req
           ELSE IF id # NoId
           THEN /\ Answer("sync", data, loc, 200, "User already synced",
                          UserView(id))
                /\ UNCHANGED req
           ELSE Await(r, "sync", data, loc, "create")
  /\ UNCHANGED <<env, now, users, patients, doctors, staff, sessions, issued, revoked>>
  /\ UNCHANGED mobile

\* POST /sync-firebase-user from prisma.user.create to the response
SyncCreate(r) ==
  /\ req[r].op = "sync" /\ req[r].pc = "create"
  /\ LET data == req[r].body
         row == SyncRow(data, req[r].loc.token)
         prof == SignupProfile(data)
     IN  IF ConstraintViolation(row, prof)
         THEN /\ Respond(r, 500, "Failed to sync user", NULL)
              /\ UNCHANGED <<users, patients, doctors, staff>>
         ELSE /\ InsertUser(row, prof)
              /\ Respond(r, 201, "User synced successfully",
                         [id |-> Len(users) + 1,
                          firebaseUid |-> row.firebaseUid,
                          email |-> row.email, role |-> row.role,
                          accountStatus |-> row.accountStatus,
                          profile |-> {ProfileRow(Len(users) + 1, prof)}])
  /\ UNCHANGED <<env, now, sessions, issued, revoked>>
  /\ UNCHANGED mobile

\* a profile route that takes an account without a profile for a missing one
GetProfile_Strict ==
  /\ \E token \in FirebaseTokens :
       LET loc == [token |-> token]
           id == FindByFirebaseUid(token.uid)
       IN  IF token.uid = NULL
           THEN Answer("profile", NULL, loc, 401, "Invalid token", NULL)
           ELSE IF id = NoId \/ ProfilesOf(id) = {}
           THEN Answer("profile", NULL, loc, 404,
                       "User not found in database", NULL)
           ELSE Answer("profile", NULL, loc, 200, "ok", UserView(id))
  /\ UNCHANGED <<env, now, users, patients, doctors, staff, sessions, issued,
                 revoked, req>>
  /\ UNCHANGED mobile

\* GET /profile
GetProfile ==
  /\ \E token \in FirebaseTokens :
       LET loc == [token |-> token]
           id == FindByFirebaseUid(token.uid)
       IN  IF token.uid = NULL
           THEN Answer("profile", NULL, loc, 401, "Invalid token", NULL)
           ELSE IF id = NoId
           THEN Answer("profile", NULL, loc, 404,
                       "User not found in database", NULL)
           ELSE Answer("profile", NULL, loc, 200, "ok", UserView(id))
  /\ UNCHANGED <<env, now, users, patients, doctors, staff, sessions, issued, revoked,
                 req>>
  /\ UNCHANGED mobile

(* ------------------------------ environment ---------------------------- *)
\* the account life cycle outside the routes: approval, suspension, deletion
Lifecycle ==
  { <<"PENDING_VERIFICATION", "ACTIVE">>, <<"ACTIVE", "SUSPENDED">>,
    <<"ACTIVE", "DELETED">> }

Approved(rows, id) ==
  {IF d.userId = id THEN [d EXCEPT !.verificationStatus = "APPROVED"]
   ELSE d : d \in rows}

SetAccountStatus ==
  /\ \E id \in DOMAIN users, t \in Lifecycle :
       /\ users[id].accountStatus = t[1]
       /\ users' = [users EXCEPT ![id].accountStatus = t[2]]
       /\ doctors' = IF t[2] = "ACTIVE" THEN Approved(doctors, id) ELSE doctors
       /\ staff' = IF t[2] = "ACTIVE" THEN Approved(staff, id) ELSE staff
  /\ UNCHANGED <<env, now, patients, sessions, issued, revoked, req, last>>
  /\ UNCHANGED mobile

\* the clock: a second passes, or the seven days of a Session
Tick ==
  /\ \E d \in {1, SessionDays * DaySeconds} :
       /\ now + d <= MaxTime
       /\ d = 1 => (now % (SessionDays * DaySeconds)) < MaxSec
       /\ now' = now + d
  /\ UNCHANGED <<env, users, patients, doctors, staff, sessions, issued, revoked, req,
                 last>>
  /\ UNCHANGED mobile

(* ------------------------ mobile AuthService --------------------------- *)
\* the Credential Registry as seeded
SeedRegistry ==
  [verified_doctors |->
     { [licenseNumber |-> <<"M", "H", "1">>, fullName |-> <<"J", "o">>,
        medicalCouncil |-> "MCI"] },
   verified_organizations |->
     [o \in {"ORG001", "ORG002"} |->
        IF o = "ORG001"
        THEN [emailDomains |-> {<<"h">>}, employees |-> {"EMP001", "EMP003"}]
        ELSE [emailDomains |-> {<<"m">>}, employees |-> {"EMP002"}]]]

(* --------------------------- seeding script ---------------------------- *)
\* the doctors and the organizations, with their employees, that
\* simple-seed.js writes
SeedDoctors ==
  << [licenseNumber |-> <<"M", "H", "1">>, fullName |-> <<"J", "o">>,
      medicalCouncil |-> "MCI"] >>

SeedOrganizations ==
  << [id |-> "ORG001", emailDomains |-> {<<"h">>},
      employees |-> <<"EMP001", "EMP003">>],
     [id |-> "ORG002", emailDomains |-> {<<"m">>},
      employees |-> <<"EMP002">>] >>

\* a Firestore project without the two collections
EmptyRegistry ==
  [verified_doctors |-> {}, verified_organizations |-> [o \in {} |-> {}]]

\* main() enters createDoctorsCollection; process.exit(0)
SeedStart == [pc |-> "doctors", i |-> 1, j |-> 0, failed |-> {}]
SeedDone == [pc |-> "done", i |-> 0, j |-> 0, failed |-> {}]

\* createDoctorsCollection: one add per doctor, each in its own try/catch
SeedDoctor ==
  /\ seed.pc = "doctors"
  /\ \E ok \in BOOLEAN :
       registry' = IF ok
                   THEN [registry EXCEPT
                           !.verified_doctors = @ \cup {SeedDoctors[seed.i]}]
                   ELSE registry
  /\ seed' = IF seed.i < Len(SeedDoctors)
             THEN [seed EXCEPT !.i = @ + 1]
             ELSE [seed EXCEPT !.pc = "orgs", !.i = 1, !.j = 0]
  /\ UNCHANGED <<fbAuth, fsUsers, fsRoles, call, result>>
  /\ UNCHANGED backend

\* the loop over the organizations goes on to the next one, or ends
NextOrg(failed) ==
  IF seed.i < Len(SeedOrganizations)
  THEN [pc |-> "orgs", i |-> seed.i + 1, j |-> 0, failed |-> failed]
  ELSE [pc |-> "done", i |-> 0, j |-> 0, failed |-> failed]

\* doc(org.id).set(orgData): the fields of the document are replaced, the
\* documents of its sub-collection stay
SetOrganization(orgs, org) ==
  [o \in DOMAIN orgs \cup {org.id} |->
     IF o = org.id
     THEN [emailDomains |-> org.emailDomains,
           employees |-> IF o \in DOMAIN orgs THEN orgs[o].employees ELSE {}]
     ELSE orgs[o]]

\* doc(org.id).collection('employees').doc(emp.employeeId).set(...)
SetEmployee(orgs, org, employeeId) ==
  [orgs EXCEPT ![org.id].employees = @ \cup {employeeId}]

\* createOrganizationsCollection: the next write of the loop, the document
\* of the organization (j = 0) or of its j-th employee; a write that throws
\* is caught, logged, and the loop goes on with the next organization
createOrganizationsCollection ==
  /\ seed.pc = "orgs"
  /\ LET org == SeedOrganizations[seed.i]
     IN  \E ok \in BOOLEAN :
            IF ~ok
            THEN /\ seed' = NextOrg(seed.failed \cup {org.id})
                 /\ UNCHANGED registry
            ELSE /\ registry' =
                      [registry EXCEPT !.verified_organizations =
                         IF seed.j = 0 THEN SetOrganization(@, org)
                         ELSE SetEmployee(@, org, org.employees[seed.j])]
                 /\ seed' = IF seed.j < Len(org.employees)
                            THEN [seed EXCEPT !.j = @ + 1]
                            ELSE NextOrg(seed.failed)
  /\ UNCHANGED <<fbAuth, fsUsers, fsRoles, call, result>>
  /\ UNCHANGED backend

(* ------------------------- verification engine ------------------------- *)
\* a query that leaves out the medicalCouncil
verifyDoctorLicense_NoCouncil(licenseNumber, fullName, medicalCouncil) ==
  \E d \in registry.verified_doctors :
     /\ d.licenseNumber = toUpperCase(licenseNumber)
     /\ d.fullName = trim(fullName)

\* the query of verifyDoctorLicense: a document matching all three fields
verifyDoctorLicense(licenseNumber, fullName, medicalCouncil) ==
  \E d \in registry.verified_doctors :
     /\ d.licenseNumber = toUpperCase(licenseNumber)
     /\ d.fullName = trim(fullName)
     /\ d.medicalCouncil = medicalCouncil

\* a verification that skips the check of the email domain
verifyStaffOrganization_NoDomain(email, organizationId, employeeId) ==
  LET orgs == registry.verified_organizations
  IN  IF organizationId \notin DOMAIN orgs THEN FALSE
      ELSE employeeId \in orgs[organizationId].employees

\* the lookups of verifyStaffOrganization, in their order
verifyStaffOrganization(email, organizationId, employeeId) ==
  LET orgs == registry.verified_organizations
  IN  IF organizationId \notin DOMAIN orgs THEN FALSE
      ELSE LET allowedDomains == orgs[organizationId].emailDomains
               parts == split(email, "@")
               emailDomain == toLowerCase(parts[Len(parts)])
           IN  IF emailDomain \notin allowedDomains THEN FALSE
               ELSE employeeId \in orgs[organizationId].employees

\* a catch that lets the caller go on when the lookup throws
OrFalse_Open(available, found) == IF available THEN found ELSE TRUE

\* try { ... } catch (e) { return false; }: a lookup that throws yields false
OrFalse(available, found) == IF available THEN found ELSE FALSE

\* the Firestore reads of verifyStaffOrganization, in the order it makes
\* them: the employee document is read only after the two checks on the
\* organization passed; a read that throws ends the call
StaffReads(a, available) ==
  LET orgs == registry.verified_organizations
      parts == split(a.email, "@")
  IN  IF ~available \/ a.organizationId \notin DOMAIN orgs
         \/ toLowerCase(parts[Len(parts)])
              \notin orgs[a.organizationId].emailDomains
      THEN <<"organization">>
      ELSE <<"organization", "employee">>

\* the claims a caller can hand to the verification functions
DoctorClaims ==
  { [licenseNumber |-> l, fullName |-> n, medicalCouncil |-> c] :
      l \in {<<"m", "h", "1">>, <<"M", "H", "1">>, <<"M", "H", "2">>},
      n \in {<<"J", "o">>, <<" ", "J", "o", " ">>, <<"J", "O">>},
      c \in {"MCI", "mci"} }

StaffClaims ==
  { [email |-> e, organizationId |-> o, employeeId |-> i] :
      e \in {<<"s", "@", "h">>, <<"s", "@", "H">>, <<"s", "@", "m">>},
      o \in {"ORG001", "ORG002", "ORG999"},
      i \in {"EMP001", "EMP002", "EMP999"} }

\* _isValidEmail; a one-letter domain stands for a dotted domain name
isValidEmail(email) == IsEmail(email)

NoCall == [op |-> "idle", pc |-> "idle", args |-> NULL, evaluated |-> FALSE,
           answered |-> TRUE,
           uid |-> NoId]

NoResult == [op |-> "none", args |-> NULL, evaluated |-> FALSE,
             answered |-> TRUE,
             outcome |-> NULL]

MArgs(email, role, f) ==
  [email |-> email, password |-> PwGood, role |-> role,
   licenseNumber |-> f[1], fullName |-> f[2], medicalCouncil |-> f[3],
   organizationId |-> f[4], employeeId |-> f[5]]

NoSeq == <<"null">>
MNone == <<NoSeq, NoSeq, NULL, NULL, NULL>>

MobileSignups ==
  { MArgs(EmailListed, "patient", MNone),
    MArgs(EmailOther, "patient", MNone),
    MArgs(EmailBad, "patient", MNone),
    MArgs(EmailListed, "doctor",
          <<(<<"m", "h", "1">>), <<" ", "J", "o">>, "MCI", NULL, NULL>>),
    MArgs(EmailOther, "doctor",
          <<(<<"m", "h", "1">>), <<"J", "O">>, "MCI", NULL, NULL>>),
    MArgs(EmailOther, "doctor", MNone),
    MArgs(EmailListed, "staff", <<NoSeq, NoSeq, NULL, "ORG001", "EMP001">>),
    MArgs(EmailOther, "staff", <<NoSeq, NoSeq, NULL, "ORG001", "EMP001">>),
    MArgs(EmailOther, "staff", <<NoSeq, NoSeq, NULL, "ORG002", NULL>>) }

\* the calls alternate between 0 and 1, which tells a call from the one
\* before it
Nth == IF result.op \in {"verifyDoctorLicense", "verifyStaffOrganization"}
       THEN 1 - result.nth ELSE 0

\* a verification that stamps the record it matched
VerifyDoctor_Stamps ==
  /\ call = NoCall
  /\ \E a \in DoctorClaims, available \in BOOLEAN :
       LET found == OrFalse(available,
                      verifyDoctorLicense(a.licenseNumber, a.fullName,
                                          a.medicalCouncil))
       IN  /\ result' = [op |-> "verifyDoctorLicense", args |-> a,
                         answered |-> available, seen |-> registry,
                         reads |-> <<"verified_doctors">>, nth |-> Nth,
                         outcome |-> found]
           /\ registry' =
                IF found
                THEN [registry EXCEPT !.verified_doctors =
                        {[d EXCEPT !.medicalCouncil = "used"] : d \in @}]
                ELSE registry
  /\ UNCHANGED <<seed, fbAuth, fsUsers, fsRoles, call>>
  /\ UNCHANGED backend

\* a call of verifyDoctorLicense
VerifyDoctor ==
  /\ call = NoCall
  /\ \E a \in DoctorClaims, available \in BOOLEAN :
       result' = [op |-> "verifyDoctorLicense", args |-> a,
                  answered |-> available, seen |-> registry,
                  reads |-> <<"verified_doctors">>, nth |-> Nth,
                  outcome |-> OrFalse(available,
                                verifyDoctorLicense(a.licenseNumber,
                                                    a.fullName,
                                                    a.medicalCouncil))]
  /\ UNCHANGED <<registry, seed, fbAuth, fsUsers, fsRoles, call>>
  /\ UNCHANGED backend

\* a call of verifyStaffOrganization
VerifyStaff ==
  /\ call = NoCall
  /\ \E a \in StaffClaims, available \in BOOLEAN :
       result' = [op |-> "verifyStaffOrganization", args |-> a,
                  answered |-> available, seen |-> registry,
                  reads |-> StaffReads(a, available), nth |-> Nth,
                  outcome |-> OrFalse(available,
                                verifyStaffOrganization(a.email,
                                                        a.organizationId,
                                                        a.employeeId))]
  /\ UNCHANGED <<registry, seed, fbAuth, fsUsers, fsRoles, call>>
  /\ UNCHANGED backend

\* the call ends: it returns, or throws `outcome`; `answered` tells whether
\* the registry lookup of its verification, if it made one, came back
Return(op, args, evaluated, answered, outcome) ==
  /\ result' = [op |-> op, args |-> args, evaluated |-> evaluated,
                answered |-> answered,
                outcome |-> outcome]
  /\ call' = NoCall

\* the role-specific verification of AuthService.signup: whether a
\* verification was evaluated and what the signup does next
SignupVerification(a, available) ==
  IF a.role = "doctor"
  THEN IF a.licenseNumber = NoSeq \/ a.fullName = NoSeq
          \/ a.medicalCouncil = NULL
       THEN [evaluated |-> FALSE, answered |-> TRUE, outcome |-> "doctor fields required"]
       ELSE IF ~OrFalse(available,
                 verifyDoctorLicense(a.licenseNumber, a.fullName,
                                     a.medicalCouncil))
       THEN [evaluated |-> TRUE, answered |-> available,
             outcome |-> "doctor verification failed"]
       ELSE [evaluated |-> TRUE, answered |-> available,
             outcome |-> "proceed"]
  ELSE IF a.role = "staff"
  THEN IF a.organizationId = NULL \/ a.employeeId = NULL
       THEN [evaluated |-> FALSE, answered |-> TRUE, outcome |-> "staff fields required"]
       ELSE IF ~OrFalse(available,
                 verifyStaffOrganization(a.email, a.organizationId,
                                         a.employeeId))
       THEN [evaluated |-> TRUE, answered |-> available,
             outcome |-> "staff verification failed"]
       ELSE [evaluated |-> TRUE, answered |-> available,
             outcome |-> "proceed"]
  ELSE [evaluated |-> FALSE, answered |-> TRUE, outcome |-> "proceed"]

\* AuthService.signup up to createUserWithEmailAndPassword
MobileSignupFrom(signups) ==
  /\ call = NoCall
  /\ \E a \in signups, available \in BOOLEAN :
       LET v == SignupVerification(a, available)
       IN  IF ~isValidEmail(a.email)
           THEN Return("signup", a, FALSE, TRUE, "invalid email")
           ELSE IF v.outcome # "proceed"
           THEN Return("signup", a, v.evaluated, v.answered, v.outcome)
           ELSE /\ call' = [op |-> "signup", pc |-> "createUser", args |-> a,
                            evaluated |-> v.evaluated,
                            answered |-> v.answered, uid |-> NoId]
                /\ UNCHANGED result
  /\ UNCHANGED <<registry, seed, fbAuth, fsUsers, fsRoles>>
  /\ UNCHANGED backend

MobileSignupVerify == MobileSignupFrom(MobileSignups)

\* _auth.createUserWithEmailAndPassword
MobileCreateUser ==
  /\ call.op = "signup" /\ call.pc = "createUser"
  /\ \E ok \in BOOLEAN :
       LET a == call.args
           uid == Cardinality(fbAuth) + 1
       IN  IF Len(a.password) < MinPassword
           THEN /\ Return("signup", a, call.evaluated, call.answered, "weak-password")
                /\ UNCHANGED fbAuth
           ELSE IF \E u \in fbAuth : u.email = a.email
           THEN /\ Return("signup", a, call.evaluated, call.answered, "email-already-in-use")
                /\ UNCHANGED fbAuth
           ELSE IF ~ok
           THEN /\ Return("signup", a, call.evaluated, call.answered, "Signup failed")
                /\ UNCHANGED fbAuth
           ELSE /\ fbAuth' = fbAuth \cup
                      {[uid |-> uid, email |-> a.email,
                        password |-> a.password, emailVerified |-> FALSE]}
                /\ call' = [call EXCEPT !.pc = "sendEmail", !.uid = uid]
                /\ UNCHANGED result
  /\ UNCHANGED <<registry, seed, fsUsers, fsRoles>>
  /\ UNCHANGED backend

\* userCred.user.sendEmailVerification
MobileSendEmail ==
  /\ call.op = "signup" /\ call.pc = "sendEmail"
  /\ \E ok \in BOOLEAN :
       IF ok THEN /\ call' = [call EXCEPT !.pc = "setUser"]
                  /\ UNCHANGED result
       ELSE Return("signup", call.args, call.evaluated,
                   call.answered, "send failed")
  /\ UNCHANGED <<registry, seed, fbAuth, fsUsers, fsRoles>>
  /\ UNCHANGED backend

\* the document written to the `users` collection
UserData(a, uid) ==
  [uid |-> uid, email |-> a.email, role |-> a.role, emailVerified |-> FALSE,
   accountStatus |-> "pending_email_verification",
   lastLogin |-> now, lastLoginAttempt |-> NoTime,
   licenseNumber |-> IF a.role = "doctor" THEN a.licenseNumber ELSE NoSeq,
   fullName |-> IF a.role = "doctor" THEN a.fullName ELSE NoSeq,
   medicalCouncil |-> IF a.role = "doctor" THEN a.medicalCouncil ELSE NULL,
   organizationId |-> IF a.role = "staff" THEN a.organizationId ELSE NULL,
   employeeId |-> IF a.role = "staff" THEN a.employeeId ELSE NULL,
   verified |-> a.role \in {"doctor", "staff"}]

\* the document written to the patients / doctors / staff collection
RoleData(a, uid) ==
  [collection |-> a.role, uid |-> uid, email |-> a.email,
   emailVerified |-> FALSE, accountStatus |-> "pending_email_verification"]

\* _firestore.collection('users').doc(uid).set(userData)
MobileSetUser ==
  /\ call.op = "signup" /\ call.pc = "setUser"
  /\ \E ok \in BOOLEAN :
       IF ok THEN /\ fsUsers' = {d \in fsUsers : d.uid # call.uid}
                                  \cup {UserData(call.args, call.uid)}
                  /\ call' = [call EXCEPT !.pc = "setRole"]
                  /\ UNCHANGED result
       ELSE /\ Return("signup", call.args, call.evaluated,
                   call.answered, "write failed")
            /\ UNCHANGED fsUsers
  /\ UNCHANGED <<registry, seed, fbAuth, fsRoles>>
  /\ UNCHANGED backend

\* _firestore.collection(role).doc(uid).set(...)
MobileSetRole ==
  /\ call.op = "signup" /\ call.pc = "setRole"
  /\ \E ok \in BOOLEAN :
       IF ok THEN /\ fsRoles' = {d \in fsRoles : d.uid # call.uid
                                    \/ d.collection # call.args.role}
                                  \cup {RoleData(call.args, call.uid)}
                  /\ Return("signup", call.args, call.evaluated,
                   call.answered, "ok")
       ELSE /\ Return("signup", call.args, call.evaluated,
                   call.answered, "write failed")
            /\ UNCHANGED fsRoles
  /\ UNCHANGED <<registry, seed, fbAuth, fsUsers>>
  /\ UNCHANGED backend

\* the `users` document of `uid`; a set with merge on a document that does
\* not exist starts from a document without fields
BlankUser(uid) ==
  [uid |-> uid, email |-> NoSeq, role |-> NULL, emailVerified |-> FALSE,
   accountStatus |-> NULL, lastLogin |-> NoTime, lastLoginAttempt |-> NoTime,
   licenseNumber |-> NoSeq, fullName |-> NoSeq, medicalCouncil |-> NULL,
   organizationId |-> NULL, employeeId |-> NULL, verified |-> FALSE]

DocOf(uid) ==
  IF \E d \in fsUsers : d.uid = uid
  THEN CHOOSE d \in fsUsers : d.uid = uid
  ELSE BlankUser(uid)

\* _firestore.collection('users').doc(uid).set(doc, SetOptions(merge: true))
SetMerge(uid, doc) == {d \in fsUsers : d.uid # uid} \cup {doc}

\* AuthService.login returns `role`, or throws `outcome`
LoginEnds(args, outcome, role) ==
  result' = [op |-> "login", args |-> args, evaluated |-> FALSE,
             answered |-> TRUE, outcome |-> outcome, role |-> role]

\* the passwords typed at the mobile login
MobilePasswords == {PwGood, PwOther}

\* AuthService.login: signInWithEmailAndPassword, reload, the check of
\* user.emailVerified, the merge into the `users` document, the read of the
\* role; `ok` and `got` tell whether the write and the read went through
MobileLogin ==
  /\ call = NoCall
  /\ \E email \in Emails, password \in MobilePasswords, ok \in BOOLEAN,
        got \in BOOLEAN :
       LET args == [email |-> email, password |-> password]
       IN  IF ~isValidEmail(email)
           THEN LoginEnds(args, "invalid email", NULL) /\ UNCHANGED fsUsers
           ELSE IF \A u \in fbAuth : u.email # email
           THEN LoginEnds(args, "user-not-found", NULL) /\ UNCHANGED fsUsers
           ELSE LET u == CHOOSE u \in fbAuth : u.email = email
                    doc == [DocOf(u.uid) EXCEPT !.lastLogin = now,
                                                !.emailVerified = TRUE,
                                                !.accountStatus = "active"]
                IN  IF u.password # password
                    THEN /\ LoginEnds(args, "wrong-password", NULL)
                         /\ UNCHANGED fsUsers
                    ELSE IF ~u.emailVerified
                    THEN IF ok
                         THEN /\ fsUsers' =
                                   SetMerge(u.uid,
                                            [DocOf(u.uid) EXCEPT
                                               !.lastLoginAttempt = now])
                              /\ LoginEnds(args, "verify email", NULL)
                         ELSE /\ LoginEnds(args, "write failed", NULL)
                              /\ UNCHANGED fsUsers
                    ELSE IF ~ok
                    THEN /\ LoginEnds(args, "write failed", NULL)
                         /\ UNCHANGED fsUsers
                    ELSE /\ fsUsers' = SetMerge(u.uid, doc)
                         /\ IF got THEN LoginEnds(args, "ok", doc.role)
                            ELSE LoginEnds(args, "read failed", NULL)
  /\ UNCHANGED <<registry, seed, fbAuth, fsRoles, call>>
  /\ UNCHANGED backend

\* the owner of an address follows the link sent by sendEmailVerification;
\* from then on reload reports the email as verified
VerifyEmail ==
  /\ call = NoCall
  /\ \E u \in fbAuth :
       /\ ~u.emailVerified
       /\ fbAuth' = (fbAuth \ {u}) \cup {[u EXCEPT !.emailVerified = TRUE]}
  /\ UNCHANGED <<registry, seed, fsUsers, fsRoles, call, result>>
  /\ UNCHANGED backend

\* the Google account that signs in; it has no password, and whether the
\* identity provider reports its email as verified is the provider's word:
\* signInWithGoogle does not read user.emailVerified
EmailGoogle == <<"g", "@", "m">>

GoogleUser(uid, verified) ==
  [uid |-> uid, email |-> EmailGoogle, password |-> NoSeq,
   emailVerified |-> verified]

\* the documents signInWithGoogle writes for an account it has not seen
GoogleUserData(uid) ==
  [BlankUser(uid) EXCEPT !.email = EmailGoogle, !.role = "patient",
                         !.emailVerified = TRUE, !.accountStatus = "active",
                         !.lastLogin = now]

GoogleRoleData(uid) ==
  [collection |-> "patient", uid |-> uid, email |-> EmailGoogle,
   emailVerified |-> TRUE, accountStatus |-> "active"]

\* AuthService.signInWithGoogle returns `role`, or throws
GoogleEnds(outcome, role) ==
  result' = [op |-> "google", args |-> [email |-> EmailGoogle],
             evaluated |-> FALSE, answered |-> TRUE, outcome |-> outcome,
             role |-> role]

\* AuthService.signInWithGoogle; `picked` tells whether an account was
\* chosen, `ok1` and `ok2` whether the two writes went through
MobileGoogle ==
  /\ call = NoCall
  /\ \E picked \in BOOLEAN, verified \in BOOLEAN, ok1 \in BOOLEAN,
        ok2 \in BOOLEAN :
       LET known == \E u \in fbAuth : u.email = EmailGoogle
           uid == IF known
                  THEN (CHOOSE u \in fbAuth : u.email = EmailGoogle).uid
                  ELSE Cardinality(fbAuth) + 1
       IN  IF ~picked
           THEN /\ GoogleEnds("cancelled", NULL)
                /\ UNCHANGED <<fbAuth, fsUsers, fsRoles>>
           ELSE /\ fbAuth' = IF known THEN fbAuth
                              ELSE fbAuth \cup {GoogleUser(uid, verified)}
                /\ IF \A d \in fsUsers : d.uid # uid
                   THEN IF ~ok1
                        THEN /\ GoogleEnds("Google Sign-In failed", NULL)
                             /\ UNCHANGED <<fsUsers, fsRoles>>
                        ELSE /\ fsUsers' = fsUsers \cup {GoogleUserData(uid)}
                             /\ IF ok2
                                THEN /\ fsRoles' = fsRoles
                                          \cup {GoogleRoleData(uid)}
                                     /\ GoogleEnds("ok", "patient")
                                ELSE /\ GoogleEnds("Google Sign-In failed",
                                                   NULL)
                                     /\ UNCHANGED fsRoles
                   ELSE /\ UNCHANGED fsRoles
                        /\ IF ok1
                           THEN /\ fsUsers' =
                                     SetMerge(uid, [DocOf(uid) EXCEPT
                                                      !.lastLogin = now])
                                /\ GoogleEnds("ok", DocOf(uid).role)
                           ELSE /\ GoogleEnds("Google Sign-In failed", NULL)
                                /\ UNCHANGED fsUsers
  /\ UNCHANGED <<registry, seed, call>>
  /\ UNCHANGED backend

(* --------------------------- specification ----------------------------- *)
\* the configurations the server is started with
Configs ==
  { [DOCTOR_EMAIL_DOMAINS |-> <<" ", "h", ",", "x">>,
     ADMIN_EMAIL_DOMAINS |-> <<"h">>,
     JWT_REFRESH_EXPIRY |-> Unset, JWT_ACCESS_EXPIRY |-> Unset] }

\* the state of a server just started, and of a device just installed,
\* but for the configuration and the Credential Registry
Boot ==
  /\ now = 0
  /\ users = <<>>
  /\ patients = {}
  /\ doctors = {}
  /\ staff = {}
  /\ sessions = {}
  /\ issued = {}
  /\ revoked = {}
  /\ req = [r \in Slots |-> Idle]
  /\ last = NoResponse
  /\ fbAuth = {}
  /\ fsUsers = {}
  /\ fsRoles = {}
  /\ call = NoCall
  /\ result = NoResult

\* the Credential Registry was seeded before the server starts
Seeded == registry = SeedRegistry /\ seed = SeedDone

Init == env \in Configs /\ Seeded /\ Boot

\* the bodies of the runs that follow accounts through every route
RouteSignups ==
  { Body(EmailListed, PwGood, "PATIENT", NameOk, NoFields),
    Body(EmailListed, PwGood, "DOCTOR", NameOk, DoctorFull),
    Body(EmailListed, PwGood, "STAFF", NameOk, StaffFull) }

RouteSyncs ==
  { SyncBody("u2", EmailOther, "DOCTOR", DoctorFull),
    SyncBody("u2", EmailOther, "STAFF", NoFields) }

\* every route, one request at a time
Next ==
  \/ SignupCheck(1, RouteSignups)
  \/ SignupCreate(1)
  \/ LoginCheck(1, Emails)
  \/ LoginSession(1)
  \/ LoginUpdate(1)
  \/ Refresh
  \/ Logout
  \/ UploadVerification
  \/ SyncCheck(1, RouteSyncs)
  \/ SyncCreate(1)
  \/ GetProfile
  \/ SetAccountStatus

Spec == Init /\ [][Next]_vars

\* concurrent logins on accounts of every status
NextLogin ==
  \/ SignupCheck(1, RouteSignups)
  \/ SignupCreate(1)
  \/ SyncCheck(1, RouteSyncs)
  \/ SyncCreate(1)
  \/ \E r \in Slots : LoginCheck(r, LoginEmails)
  \/ \E r \in Slots : LoginSession(r)
  \/ \E r \in Slots : LoginUpdate(r)
  \/ Logout
  \/ SetAccountStatus

SpecLogin == Init /\ [][NextLogin]_vars

\* account creation by concurrent /signup and /sync-firebase-user requests
NextCreate ==
  \/ \E r \in Slots : SignupCheck(r, SignupBodies)
  \/ \E r \in Slots : SignupCreate(r)
  \/ \E r \in Slots : SyncCheck(r, SyncBodies)
  \/ \E r \in Slots : SyncCreate(r)
  \/ GetProfile

SpecCreate == Init /\ [][NextCreate]_vars

\* the bodies that pass and that fail the domain gate
GateSignups ==
  { Body(EmailListed, PwGood, "PATIENT", NameOk, NoFields),
    Body(EmailOther, PwGood, "PATIENT", NameOk, NoFields),
    Body(EmailListed, PwGood, "DOCTOR", NameOk, DoctorFull),
    Body(EmailOther, PwGood, "DOCTOR", NameOk, DoctorFull),
    Body(EmailOther, PwGood, "STAFF", NameOk, StaffFull) }

\* signup through the backend route and through the mobile AuthService
NextSignup ==
  \/ SignupCheck(1, GateSignups)
  \/ SignupCreate(1)
  \/ MobileSignupVerify
  \/ MobileCreateUser
  \/ MobileSendEmail
  \/ MobileSetUser
  \/ MobileSetRole

SpecSignup == Init /\ [][NextSignup]_vars

\* the allow-lists a server can be configured with: padded and upper-case
\* entries, an empty entry, an empty list, no list
DomainConfigs ==
  Configs \cup
  { [DOCTOR_EMAIL_DOMAINS |-> Unset, ADMIN_EMAIL_DOMAINS |-> Unset,
     JWT_REFRESH_EXPIRY |-> Unset, JWT_ACCESS_EXPIRY |-> Unset],
    [DOCTOR_EMAIL_DOMAINS |-> <<>>, ADMIN_EMAIL_DOMAINS |-> <<"M", " ">>,
     JWT_REFRESH_EXPIRY |-> Unset, JWT_ACCESS_EXPIRY |-> Unset],
    [DOCTOR_EMAIL_DOMAINS |-> <<"x", ",", ",", "M">>,
     ADMIN_EMAIL_DOMAINS |-> <<>>,
     JWT_REFRESH_EXPIRY |-> Unset, JWT_ACCESS_EXPIRY |-> Unset] }

InitDomain == env \in DomainConfigs /\ Seeded /\ Boot

\* the domain gate under every configuration, called directly and by /signup
NextDomain ==
  \/ IsVerifiedDomainCall
  \/ SignupCheck(1, GateSignups)
  \/ SignupCreate(1)

SpecDomain == InitDomain /\ [][NextDomain]_vars

\* an account of role ADMIN: the schema has this role and no table of
\* administrator profiles
AdminRow ==
  [email |-> <<"r", "@", "h">>, passwordHash |-> NoHash, role |-> "ADMIN",
   emailVerified |-> TRUE, accountStatus |-> "ACTIVE", lastLogin |-> NoTime,
   firebaseUid |-> "u2"]

\* the identity store of a deployment, with or without an administrator
InitProfile ==
  /\ env \in Configs
  /\ Seeded
  /\ now = 0
  /\ users \in {<<>>, <<AdminRow>>}
  /\ patients = {} /\ doctors = {} /\ staff = {}
  /\ sessions = {} /\ issued = {} /\ revoked = {}
  /\ req = [r \in Slots |-> Idle]
  /\ last = NoResponse
  /\ fbAuth = {} /\ fsUsers = {} /\ fsRoles = {}
  /\ call = NoCall /\ result = NoResult

\* the routes of the external-identity accounts
NextProfile ==
  \/ SyncCheck(1, SyncBodies)
  \/ SyncCreate(1)
  \/ GetProfile

SpecProfile == InitProfile /\ [][NextProfile]_vars

\* the mobile client: signup, the verification of the address, the logins
LoginSignups ==
  { MArgs(EmailListed, "patient", MNone),
    MArgs(EmailOther, "doctor",
          <<(<<"m", "h", "1">>), <<"J", "o">>, "MCI", NULL, NULL>>) }

NextMobile ==
  \/ MobileSignupFrom(LoginSignups)
  \/ MobileCreateUser
  \/ MobileSendEmail
  \/ MobileSetUser
  \/ MobileSetRole
  \/ VerifyEmail
  \/ MobileLogin
  \/ MobileGoogle

SpecMobile == Init /\ [][NextMobile]_vars

\* the verification calls and the mobile signup that depends on them, over
\* a registry whose lookups can fail
NextLookup ==
  \/ VerifyDoctor
  \/ VerifyStaff
  \/ MobileSignupVerify
  \/ MobileCreateUser
  \/ MobileSendEmail
  \/ MobileSetUser
  \/ MobileSetRole

SpecLookup == Init /\ [][NextLookup]_vars

\* the Credential Registry while it is seeded, and the verification calls
\* that read it
InitRegistry ==
  /\ env \in Configs
  /\ registry = EmptyRegistry
  /\ seed = SeedStart
  /\ Boot

NextRegistry ==
  \/ SeedDoctor
  \/ createOrganizationsCollection
  \/ VerifyDoctor
  \/ VerifyStaff

SpecRegistry == InitRegistry /\ [][NextRegistry]_vars

\* the configurations whose refresh credential outlives the seven days of
\* a Session or ends before them, next to the default
SessionConfigs ==
  Configs \cup
  { [DOCTOR_EMAIL_DOMAINS |-> <<" ", "h", ",", "x">>,
     ADMIN_EMAIL_DOMAINS |-> <<"h">>,
     JWT_REFRESH_EXPIRY |-> <<8, "d">>, JWT_ACCESS_EXPIRY |-> Unset],
    [DOCTOR_EMAIL_DOMAINS |-> <<" ", "h", ",", "x">>,
     ADMIN_EMAIL_DOMAINS |-> <<"h">>,
     JWT_REFRESH_EXPIRY |-> <<1, "d">>, JWT_ACCESS_EXPIRY |-> Unset] }

InitSession == env \in SessionConfigs /\ Seeded /\ Boot

SessionSignups ==
  { Body(EmailListed, PwGood, "PATIENT", NameOk, NoFields),
    Body(EmailOther, PwGood, "PATIENT", NameOk, NoFields) }

\* the life of a Session: login, refresh, logout, while the clock runs
NextSession ==
  \/ SignupCheck(1, SessionSignups)
  \/ SignupCreate(1)
  \/ LoginCheck(1, Emails)
  \/ LoginSession(1)
  \/ LoginUpdate(1)
  \/ Refresh
  \/ Logout
  \/ Tick

SpecSession == InitSession /\ [][NextSession]_vars

\* sessions of accounts whose status changes after the login
StatusSignups == {Body(EmailListed, PwGood, "PATIENT", NameOk, NoFields)}

NextStatus ==
  \/ SignupCheck(1, StatusSignups)
  \/ SignupCreate(1)
  \/ LoginCheck(1, {EmailListed})
  \/ LoginSession(1)
  \/ LoginUpdate(1)
  \/ Refresh
  \/ Logout
  \/ SetAccountStatus
  \/ Tick

SpecStatus == InitSession /\ [][NextStatus]_vars

\* logins against a database that can fail between the two writes
NextLoginFault ==
  \/ SignupCheck(1, SessionSignups)
  \/ SignupCreate(1)
  \/ \E r \in Slots : LoginCheck(r, Emails)
  \/ \E r \in Slots : LoginSession(r)
  \/ \E r \in Slots : LoginUpdate(r)
  \/ \E r \in Slots : LoginUpdateFails(r)
  \/ Logout

SpecLoginFault == Init /\ [][NextLoginFault]_vars

(* ------------------------------- claims -------------------------------- *)
\* a response was sent in this step
Answered ==
  \/ last' # last
  \/ \E r \in Slots : req[r] # Idle /\ req'[r] = Idle

\* C1: login goes on to issue credentials and a Session only for an account
\* whose status is ACTIVE; with the correct password, a SUSPENDED,
\* PENDING_VERIFICATION or DELETED account is rejected and gets no Session.
C1_OnlyActiveLogsIn ==
  \A r \in Slots :
     req[r].op = "login" /\ req[r].pc \in {"session", "update"}
       => req[r].loc.status = "ACTIVE"

\* C2: the users table never holds two rows with the same email, whatever
\* the interleaving of /signup and /sync-firebase-user requests.
C2_EmailUnique ==
  \A i, j \in DOMAIN users : users[i].email = users[j].email => i = j

\* a creation passed its pre-check and was then refused by the store because
\* the email had been taken meanwhile
C2_Witness ==
  /\ last.op \in {"signup", "sync"}
  /\ last.status = 500
  /\ \E i \in DOMAIN users : users[i].email = last.body.email

\* C3: every valid signup whose email is held by an Account when it is
\* answered gets 400 'Email already registered', the signup that lost a race
\* after its pre-check included.
C3_DuplicateEmailIs400 ==
  [][ (/\ Answered
       /\ last'.op = "signup"
       /\ ValidSignup(last'.body)
       /\ EmailTaken(last'.body))
      => (last'.status = 400 /\ last'.msg = "Email already registered") ]_vars

\* the verificationStatus of the doctor / staff profile of account id
VerificationOf(id) ==
  {d.verificationStatus : d \in {x \in doctors \cup staff : x.userId = id}}

\* C4: a Doctor or Staff account is created with accountStatus
\* PENDING_VERIFICATION and verificationStatus PENDING, and no route
\* (signup, login, refresh, logout, upload-verification, sync, profile)
\* changes either value; only the life-cycle step outside the routes does.
C4_PendingUntilApproval ==
  [][ ~SetAccountStatus =>
        \A id \in DOMAIN users' :
           users'[id].role \in {"DOCTOR", "STAFF"} =>
              IF id \in DOMAIN users
              THEN /\ users'[id].accountStatus = users[id].accountStatus
                   /\ VerificationOf(id)' = VerificationOf(id)
              ELSE /\ users'[id].accountStatus = "PENDING_VERIFICATION"
                   /\ VerificationOf(id)' = {"PENDING"} ]_vars

\* a Doctor uploaded a verification document and is still pending
C4_Witness ==
  /\ last.op = "upload" /\ last.status = 200
  /\ last.body.userId \in DOMAIN users
  /\ users[last.body.userId].role = "DOCTOR"
  /\ users[last.body.userId].accountStatus = "PENDING_VERIFICATION"
  /\ \E d \in doctors : /\ d.userId = last.body.userId
                        /\ d.verificationDocument # NULL
                        /\ d.verificationStatus = "PENDING"

\* C5: a valid Patient signup is answered 201 with an ACTIVE Account unless
\* the email is registered already, and neither the backend domain check nor
\* the mobile credential verification is evaluated for a Patient signup.
C5_PatientActiveUnverified ==
  /\ (last.op = "signup" /\ last.body.role = "PATIENT") =>
        /\ ~last.loc.evaluated
        /\ ValidSignup(last.body) =>
             \/ /\ last.status = 201
                /\ last.out.accountStatus = "ACTIVE"
                /\ users[last.out.id].accountStatus = "ACTIVE"
                /\ users[last.out.id].email = last.body.email
             \/ /\ last.status = 400
                /\ last.msg = "Email already registered"
  /\ \A r \in Slots :
        (req[r].op = "signup" /\ req[r].body.role = "PATIENT")
          => ~req[r].loc.evaluated
  /\ (result.op = "signup" /\ result.args.role = "patient")
        => ~result.evaluated
  /\ (call.op = "signup" /\ call.args.role = "patient") => ~call.evaluated

\* a Patient signed up with an unlisted domain on the backend, and a Patient
\* signed up on the mobile client
C5_Witness ==
  /\ last.op = "signup" /\ last.body.role = "PATIENT" /\ last.status = 201
  /\ last.body.email = EmailOther
  /\ ~isVerifiedDomain(EmailOther, "DOCTOR")
  /\ result.op = "signup" /\ result.args.role = "patient"
  /\ result.outcome = "ok"

\* the domain gate of the backend, computed from the configuration
Listed(email, list) ==
  \E i \in 1..Len(list) :
     toLowerCase(trim(list[i])) = toLowerCase(split(email, "@")[2])

\* the mobile verification a document's fields must have passed
DocVerified(d) ==
  CASE d.role = "doctor" ->
         verifyDoctorLicense(d.licenseNumber, d.fullName, d.medicalCouncil)
    [] d.role = "staff" ->
         verifyStaffOrganization(d.email, d.organizationId, d.employeeId)
    [] OTHER -> TRUE

\* C6: a Doctor or Staff signup that fails its gate creates nothing: every
\* Doctor / Staff Account and Profile of the backend has an allow-listed
\* domain, and the mobile signup reaches the identity provider and the
\* documents only with arguments the Verification Engine accepts.
C6_FailedGateCreatesNothing ==
  /\ \A i \in DOMAIN users :
        /\ users[i].role = "DOCTOR" =>
             Listed(users[i].email,
                    split(EnvOr(env.DOCTOR_EMAIL_DOMAINS), ","))
        /\ users[i].role = "STAFF" =>
             Listed(users[i].email,
                    split(EnvOr(env.ADMIN_EMAIL_DOMAINS), ","))
  /\ \A d \in patients \cup doctors \cup staff : d.userId \in DOMAIN users
  /\ (last.op = "signup" /\ last.msg = "institutional email required")
        => \A i \in DOMAIN users : users[i].email # last.body.email
  /\ call.op = "signup" =>
        /\ DocVerified(call.args)
        /\ call.args.role \in {"doctor", "staff"} => call.evaluated
  /\ \A d \in fsUsers : DocVerified(d)
  /\ Cardinality(fsUsers) <= Cardinality(fbAuth)
  /\ \A d \in fsRoles : \E u \in fsUsers : u.uid = d.uid /\ u.role = d.collection

\* the backend refused a signup at the domain gate and the mobile client
\* refused one at the verification
C6_Witness ==
  /\ last.op = "signup" /\ last.msg = "institutional email required"
  /\ result.op = "signup"
  /\ result.outcome \in {"doctor verification failed",
                         "staff verification failed"}
  /\ Len(users) > 0
  /\ fsRoles # {}

\* C7: a Doctor signup without licenseNumber or medicalCouncil, and a Staff
\* signup without organizationId, employeeId or department, is answered with
\* a validation failure.
C7_OmittedFieldIsRejected ==
  (/\ last.op = "signup"
   /\ \/ /\ last.body.role = "DOCTOR"
         /\ NULL \in {last.body.licenseNumber, last.body.medicalCouncil}
      \/ /\ last.body.role = "STAFF"
         /\ NULL \in {last.body.organizationId, last.body.employeeId,
                      last.body.department})
    => (last.status = 400 /\ last.msg = "ZodError")

\* C8: every Account has exactly one Profile, in the table of its role, and
\* every Profile row belongs to an Account.
C8_OneProfilePerAccount ==
  /\ \A i \in DOMAIN users :
        /\ Cardinality({p \in patients : p.userId = i})
             = (IF users[i].role = "PATIENT" THEN 1 ELSE 0)
        /\ Cardinality({p \in doctors : p.userId = i})
             = (IF users[i].role = "DOCTOR" THEN 1 ELSE 0)
        /\ Cardinality({p \in staff : p.userId = i})
             = (IF users[i].role = "STAFF" THEN 1 ELSE 0)
  /\ \A p \in patients \cup doctors \cup staff : p.userId \in DOMAIN users

\* a create was refused by the store next to Accounts of two roles
C8_Witness ==
  /\ last.op \in {"signup", "sync"} /\ last.status = 500
  /\ Len(users) = 2
  /\ users[1].role # users[2].role

\* C9: a login with an unknown email or a wrong password never becomes a
\* handler that writes a Session or lastLogin, and the step that answers it
\* 401 leaves every table and every issued credential unchanged.
C9_FailedLoginWritesNothing ==
  [][ /\ \A r \in Slots :
            (req[r] = Idle /\ req'[r] # Idle /\ req'[r].op = "login") =>
               LET id == FindByEmail(req'[r].body.email)
               IN  /\ id # NoId
                   /\ users[id].passwordHash = Hash(req'[r].body.password)
      /\ (last' # last /\ last'.op = "login" /\ last'.status = 401) =>
            UNCHANGED <<users, patients, doctors, staff, sessions, issued,
                        req>> ]_vars

\* a wrong password was answered 401 for an Account that has a Session
C9_Witness ==
  /\ last.op = "login" /\ last.status = 401
  /\ last.loc.id # NoId
  /\ \E s \in sessions : s.userId = last.loc.id
  /\ users[last.loc.id].lastLogin # NoTime

\* C10: a login for an email without Account and a login with an existing
\* email and a password that is not the Account's are both answered
\* 401 'Invalid credentials', whatever the Account.
C10_SameAnswer ==
  (/\ last.op = "login"
   /\ IsEmail(last.body.email)
   /\ \/ last.loc.id = NoId
      \/ users[last.loc.id].passwordHash # Hash(last.body.password))
    => (last.status = 401 /\ last.msg = "Invalid credentials")

\* a refresh request presenting `token` is answered in this step
RefreshAnswered(token) ==
  /\ last' # last
  /\ last'.op = "refresh"
  /\ last'.body.refreshToken = token

\* C11: once a logout has deleted the Session of a refresh credential, every
\* later refresh request presenting that credential is answered 401 and
\* yields no access credential, also while the credential itself verifies.
C11_RevokedCredentialFails ==
  [][\A token \in revoked :
       RefreshAnswered(token) => last'.status = 401 /\ last'.out = {}]_vars

\* the Sessions holding `token`
SessionsOf(token) == {s \in sessions : s.refreshToken = token}

\* C12: a refresh request whose matching Session has an expiresAt in the
\* past is answered 401 and yields no access credential, also when the
\* refresh credential verifies.
C12_ExpiredSessionIs401 ==
  [][\A token \in issued :
       (/\ RefreshAnswered(token)
        /\ \E s \in SessionsOf(token) : s.expiresAt < now)
       => last'.status = 401 /\ last'.out = {}]_vars

\* a verifying credential was refused for its expired Session
C12_Witness ==
  /\ last.op = "refresh"
  /\ last.status = 401
  /\ last.msg = "Invalid or expired refresh token"
  /\ Verifies(last.body.refreshToken)
  /\ \E s \in SessionsOf(last.body.refreshToken) : s.expiresAt < now

\* what a successful refresh leaves alone: every table, the Session, its
\* credential and its expiry; it hands out one access credential and the
\* credential it was given is good for the next refresh
RefreshFrame ==
  \A token \in issued :
     (RefreshAnswered(token) /\ last'.status = 200)
     => /\ UNCHANGED <<users, patients, doctors, staff, sessions, issued>>
        /\ \E s \in SessionsOf(token) :
              last'.out = {SignAccess(s.userId, users[s.userId].role)}
        /\ RefreshResponse(token)'.status = 200

\* C13 as stated: a successful refresh returns an access credential only and
\* changes nothing in the store, and the credential stays usable for further
\* refreshes until its Session is deleted or expires.
C13_RefreshKeepsCredentialUsable ==
  /\ [][RefreshFrame]_vars
  /\ [](\A token \in issued :
          (/\ last.op = "refresh" /\ last.status = 200
           /\ last.body.refreshToken = token
           /\ \E s \in SessionsOf(token) : ~(s.expiresAt < now))
          => RefreshResponse(token).status = 200)

\* C14: logout answers 200 with the same message whether or not the
\* credential has a Session; it deletes the Session of that credential if
\* there is one, and leaves every other Session and every table untouched,
\* so a repeated logout finds the store as the first one left it.
C14_LogoutIdempotent ==
  [][(last' # last /\ last'.op = "logout")
     => /\ last'.status = 200
        /\ last'.msg = "Logged out successfully"
        /\ sessions' = sessions \ SessionsOf(last'.body.refreshToken)
        /\ \A s \in sessions' : s.refreshToken # last'.body.refreshToken
        /\ UNCHANGED <<users, patients, doctors, staff, issued>>]_vars

\* a logout deleted the Session of its credential and left another Session
C14_Witness ==
  /\ last.op = "logout"
  /\ last.status = 200
  /\ last.body.refreshToken \in revoked
  /\ SessionsOf(last.body.refreshToken) = {}
  /\ sessions # {}

\* a sync request of a verified token is answered in this step, and the
\* firebaseUid of its body is not the uid of the token
MismatchAnswered ==
  /\ last' # last
  /\ last'.op = "sync"
  /\ last'.loc.token.uid # NULL
  /\ last'.body.firebaseUid # last'.loc.token.uid

\* C15 as stated: a sync request whose body firebaseUid differs from the uid
\* of the verified token is answered 403 and neither creates nor returns an
\* Account, whether or not an Account with either uid exists.
C15_MismatchIs403 ==
  [][MismatchAnswered
     => /\ last'.status = 403
        /\ last'.msg = "Firebase UID mismatch"
        /\ UNCHANGED <<users, patients, doctors, staff>>]_vars

\* C15 amended: a sync request whose body firebaseUid differs from the uid of
\* the verified token neither creates nor returns an Account, whether or not
\* an Account with either uid exists; it is answered 403 when its body
\* passes the schema, and 400 when it does not.
C15_MismatchCreatesNothing ==
  [][MismatchAnswered
     => /\ last'.status = IF ValidSync(last'.body) THEN 403 ELSE 400
        /\ last'.out = NULL
        /\ UNCHANGED <<users, patients, doctors, staff>>]_vars

\* a mismatching request was refused while Accounts with both uids exist
C15_Witness ==
  /\ last.op = "sync"
  /\ last.status = 403
  /\ last.loc.token.uid # NULL
  /\ last.body.firebaseUid # last.loc.token.uid
  /\ FindByFirebaseUid(last.body.firebaseUid) # NoId
  /\ FindByFirebaseUid(last.loc.token.uid) # NoId

\* C16: sync is idempotent per firebaseUid: at most one Account carries a
\* uid, and a call repeating the request that created the Account of a uid,
\* whether a retry or a call overlapping the first, completes without error,
\* returns the id of that Account and leaves the store unchanged.
C16_SyncIdempotent ==
  /\ [](\A i, j \in DOMAIN users :
          (users[i].firebaseUid # NULL
           /\ users[i].firebaseUid = users[j].firebaseUid) => i = j)
  /\ [][(/\ last' # last
         /\ last'.op = "sync"
         /\ last'.loc.token.uid # NULL
         /\ ValidSync(last'.body)
         /\ last'.body.firebaseUid = last'.loc.token.uid
         /\ FindByFirebaseUid(last'.body.firebaseUid) # NoId
         /\ users[FindByFirebaseUid(last'.body.firebaseUid)].email
              = last'.body.email
         /\ users[FindByFirebaseUid(last'.body.firebaseUid)].role
              = last'.body.role)
        => /\ last'.status = 200
           /\ last'.out.id = FindByFirebaseUid(last'.body.firebaseUid)
           /\ UNCHANGED <<users, patients, doctors, staff>>]_vars

\* the verification call that ended last was answered by the registry
Verified(op) == result.op = op /\ result.answered

\* C17: verifyDoctorLicense, when the registry answers, returns true exactly
\* when the registry holds a record whose licenseNumber is the upper-cased
\* claimed license, whose fullName is the trimmed claimed name and whose
\* medicalCouncil is the claimed council; one mismatching field yields
\* false also when the other two match.
C17_DoctorExactMatch ==
  Verified("verifyDoctorLicense") =>
    LET a == result.args
        docs == result.seen.verified_doctors
    IN  /\ result.outcome
             <=> \E d \in docs :
                    /\ d.licenseNumber = toUpperCase(a.licenseNumber)
                    /\ d.fullName = trim(a.fullName)
                    /\ d.medicalCouncil = a.medicalCouncil
        /\ (/\ SeedDoctors[1] \in docs
            /\ a.licenseNumber \in {<<"m", "h", "1">>, <<"M", "H", "1">>}
            /\ a.fullName \in {<<"J", "o">>, <<" ", "J", "o", " ">>}
            /\ a.medicalCouncil = "MCI") => result.outcome
        /\ a.licenseNumber = <<"M", "H", "2">> => ~result.outcome
        /\ a.fullName = <<"J", "O">> => ~result.outcome
        /\ a.medicalCouncil = "mci" => ~result.outcome

\* a lower-case license and a padded name matched the seeded record
C17_Witness ==
  /\ Verified("verifyDoctorLicense")
  /\ result.args.licenseNumber = <<"m", "h", "1">>
  /\ result.args.fullName = <<" ", "J", "o", " ">>
  /\ result.outcome

\* the part of an email after its `@`
DomainOf(email) ==
  LET at == CHOOSE k \in 1..Len(email) : email[k] = "@"
  IN  SubSeq(email, at + 1, Len(email))

\* C18: verifyStaffOrganization, when the registry answers, returns true
\* exactly when the organization exists, the lower-cased domain of the email
\* is among its allowed domains and the employeeId is among its own
\* employees; the employee is looked up only after the first two checks
\* passed, so a domain outside the allow-list yields false also when the
\* employee exists, as does an employee of another organization only.
C18_StaffThreeChecks ==
  Verified("verifyStaffOrganization") =>
    LET a == result.args
        orgs == result.seen.verified_organizations
        known == a.organizationId \in DOMAIN orgs
        allowed == known /\ toLowerCase(DomainOf(a.email))
                              \in orgs[a.organizationId].emailDomains
    IN  /\ result.outcome
             <=> (allowed /\ a.employeeId \in orgs[a.organizationId].employees)
        /\ result.reads = IF allowed THEN <<"organization", "employee">>
                          ELSE <<"organization">>
        /\ (a.organizationId = "ORG001" /\ a.email = <<"s", "@", "m">>)
             => ~result.outcome
        /\ (a.organizationId = "ORG001" /\ a.employeeId = "EMP002")
             => ~result.outcome

\* an employee of the organization was refused for the domain of the email,
\* and the employee document was not read
C18_Witness ==
  /\ Verified("verifyStaffOrganization")
  /\ result.args = [email |-> <<"s", "@", "m">>, organizationId |-> "ORG001",
                    employeeId |-> "EMP001"]
  /\ "ORG001" \in DOMAIN result.seen.verified_organizations
  /\ "EMP001" \in result.seen.verified_organizations["ORG001"].employees
  /\ ~result.outcome
  /\ result.reads = <<"organization">>

VerifyOps == {"verifyDoctorLicense", "verifyStaffOrganization"}

\* C19: a verification call never writes the Credential Registry, and two
\* calls in a row with the same inputs, both answered by a registry of the
\* same contents, return the same boolean.
C19_VerificationPure ==
  [][(result' # result /\ result'.op \in VerifyOps)
     => /\ registry' = registry
        /\ (/\ result.op = result'.op
            /\ result.args = result'.args
            /\ result.answered /\ result'.answered
            /\ result.seen = result'.seen)
           => result'.outcome = result.outcome]_vars

\* a second call in a row matched, and the registry is as the call read it
C19_Witness ==
  /\ result.op \in VerifyOps
  /\ result.nth = 1
  /\ result.answered
  /\ result.outcome
  /\ result.seen = registry

\* C20: seeding an organization with its employees is all-or-nothing: when
\* the write of the organization or of one of its employees failed, the
\* registry holds neither the organization nor any of its employees.
C20_SeedAllOrNothing ==
  \A id \in seed.failed : id \notin DOMAIN registry.verified_organizations

\* the login in slot r passed the password check on an ACTIVE account and
\* takes its next step
ActiveLoginSteps(r) ==
  /\ req[r].op = "login"
  /\ req[r].loc.status = "ACTIVE"
  /\ req'[r] # req[r]

\* C21: every login with the correct password on an ACTIVE account succeeds:
\* it persists exactly one new Session, whose refresh credential no existing
\* Session holds, also when the same account logs in concurrently or in
\* quick succession, and it then updates lastLogin and answers 200.
C21_LoginPersistsNewSession ==
  [][\A r \in Slots :
       ActiveLoginSteps(r) =>
         IF req[r].pc = "session"
         THEN /\ req'[r].pc = "update"
              /\ \A s \in sessions : s.refreshToken # req[r].loc.refreshToken
              /\ sessions' = sessions \cup
                    {[userId |-> req[r].loc.id,
                      refreshToken |-> req[r].loc.refreshToken,
                      expiresAt |-> req[r].loc.expiresAt]}
         ELSE /\ last'.status = 200
              /\ users'[req[r].loc.id].lastLogin = now]_vars

\* C22: whatever validity is configured for the refresh credential, a
\* Session row has an expiresAt equal to the expiry of the refresh credential
\* it holds, so both become invalid at the same time.
C22_SessionExpiresWithCredential ==
  \A s \in sessions : s.expiresAt = s.refreshToken.exp

\* C23: login is atomic in its writes: when a login that had created its
\* Session ends with an error response, that Session is not left in the
\* store.
C23_FailedLoginLeavesNoSession ==
  [][\A r \in Slots :
       (/\ req[r].op = "login" /\ req[r].pc = "update"
        /\ req'[r] = Idle
        /\ last'.status # 200)
       => \A s \in sessions' : s.refreshToken # req[r].loc.refreshToken]_vars

\* C24: a mobile signup that fails after the identity-provider account was
\* created (the verification email, the users document or the role document
\* fails) leaves nothing of that attempt: no identity-provider account, no
\* users document and no role document for its email.
C24_FailedSignupLeavesNothing ==
  (result.op = "signup" /\ result.outcome \in {"send failed", "write failed"})
  => /\ \A u \in fbAuth : u.email # result.args.email
     /\ \A d \in fsUsers : d.email # result.args.email
     /\ \A d \in fsRoles : d.email # result.args.email

\* C25: an Account newly created by sync is ACTIVE when its role is PATIENT
\* and PENDING_VERIFICATION when it is DOCTOR or STAFF, and its emailVerified
\* flag is the email_verified claim of the token, false when the claim is
\* absent.
C25_SyncedAccountStatus ==
  [][(last' # last /\ last'.op = "sync" /\ last'.status = 201)
     => /\ Len(users') = Len(users) + 1
        /\ LET u == users'[Len(users')]
           IN  /\ u.firebaseUid = last'.loc.token.uid
               /\ u.accountStatus =
                    IF last'.body.role = "PATIENT" THEN "ACTIVE"
                    ELSE "PENDING_VERIFICATION"
               /\ u.emailVerified
                    <=> last'.loc.token.email_verified = "true"]_vars

\* a Doctor was synced from a token without the email_verified claim
C25_Witness ==
  /\ last.op = "sync"
  /\ last.status = 201
  /\ last.body.role = "DOCTOR"
  /\ last.loc.token.email_verified = "undefined"
  /\ users[last.out.id].accountStatus = "PENDING_VERIFICATION"
  /\ ~users[last.out.id].emailVerified

\* the entries of a comma-separated list: its longest pieces without a comma
Entries(list) ==
  { SubSeq(list, p[1], p[2]) :
      p \in { q \in (1..(Len(list) + 1)) \X (0..Len(list)) :
                /\ q[1] <= q[2] + 1
                /\ (q[1] = 1 \/ list[q[1] - 1] = ",")
                /\ (q[2] = Len(list) \/ list[q[2] + 1] = ",")
                /\ \A k \in q[1]..q[2] : list[k] # "," } }

\* the allow-list configured for a role
AllowList(role) ==
  IF role = "DOCTOR" THEN env.DOCTOR_EMAIL_DOMAINS ELSE env.ADMIN_EMAIL_DOMAINS

\* C26: isVerifiedDomain(email, role) is true for DOCTOR (and for STAFF)
\* exactly when the lower-cased domain of the email equals, after trimming and
\* lower-casing, an entry of the doctor (staff) allow-list; it is false for
\* every email when that list is empty or unset, and true for PATIENT.
C26_DomainAllowList ==
  last.op = "isVerifiedDomain" =>
    LET email == last.body.email
        role == last.body.role
    IN  IF role = "PATIENT" THEN last.out
        ELSE /\ last.out
                  <=> \E e \in Entries(EnvOr(AllowList(role))) :
                         toLowerCase(trim(e)) = toLowerCase(DomainOf(email))
             /\ AllowList(role) \in {Unset, <<>>} => ~last.out

\* a padded entry of the list matched a domain typed in upper case
C26_Witness ==
  /\ last.op = "isVerifiedDomain"
  /\ last.body = [email |-> EmailListed, role |-> "DOCTOR"]
  /\ env.DOCTOR_EMAIL_DOMAINS = <<" ", "h", ",", "x">>
  /\ last.out

\* a signup whose verification looked the registry up and got no answer
LookupFailed(r) == r.op = "signup" /\ r.evaluated /\ ~r.answered

\* C27: when the Credential Registry lookup fails during verifyDoctorLicense
\* or verifyStaffOrganization the call returns false instead of raising, and a
\* signup that depends on it is denied and creates no account.
C27_LookupFailureDenies ==
  /\ [](/\ (result.op \in VerifyOps /\ ~result.answered)
              => result.outcome = FALSE
        /\ LookupFailed(result)
              => result.outcome \in {"doctor verification failed",
                                     "staff verification failed"}
        /\ call.op = "signup" /\ call.evaluated => call.answered)
  /\ [][(call = NoCall /\ LookupFailed(result') /\ result' # result)
          => /\ call' = NoCall
             /\ fbAuth' = fbAuth /\ fsUsers' = fsUsers
             /\ fsRoles' = fsRoles]_vars

\* a doctor whose record is in the registry was denied because the lookup
\* failed
C27_Witness ==
  /\ LookupFailed(result)
  /\ result.args.role = "doctor"
  /\ verifyDoctorLicense(result.args.licenseNumber, result.args.fullName,
                         result.args.medicalCouncil)
  /\ result.outcome = "doctor verification failed"
  /\ fbAuth = {}

\* C28: getProfile changes no stored state, answers 404 when no Account
\* carries the token's externalUid, and answers successfully, with an empty
\* profile, when the Account exists but has no profile of its role.
C28_ProfilePureLookup ==
  [][(last'.op = "profile" /\ last' # last)
       => /\ <<users, patients, doctors, staff, sessions>>'
               = <<users, patients, doctors, staff, sessions>>
          /\ LET uid == last'.loc.token.uid
             IN  uid # NULL =>
                   /\ (\A i \in DOMAIN users : users[i].firebaseUid # uid)
                         => last'.status = 404
                   /\ \A i \in DOMAIN users :
                        users[i].firebaseUid = uid
                          => /\ last'.status = 200
                             /\ last'.out.id = i
                             /\ last'.out.role = users[i].role
                             /\ last'.out.profile
                                  = {p \in patients \cup doctors \cup staff :
                                       p.userId = i}]_vars

\* the administrator's account was found and answered with an empty profile
C28_Witness ==
  /\ last.op = "profile"
  /\ last.status = 200
  /\ last.out.role = "ADMIN"
  /\ last.out.profile = {}
  /\ \E i \in DOMAIN users : users[i].firebaseUid = last.loc.token.uid

\* the refresh credential was signed by the server and has not expired, and
\* a Session that has not expired holds it
Refreshable(token) ==
  /\ token \in issued
  /\ now < token.exp
  /\ \E s \in sessions : s.refreshToken = token /\ ~(s.expiresAt < now)

\* C29: refresh is not gated on account status: a refresh request succeeds
\* exactly when the credential's signature and expiry verify and a matching,
\* unexpired Session exists, whatever the status of the account, and the
\* access credential it returns carries the account's current role.
C29_RefreshIgnoresStatus ==
  /\ [](\A token \in RefreshInputs :
          RefreshResponse(token).status = 200 <=> Refreshable(token))
  /\ [][\A token \in RefreshInputs :
          RefreshAnswered(token)
          => /\ last'.status = 200 <=> Refreshable(token)
             /\ last'.status # 200 => last'.status = 401 /\ last'.out = {}
             /\ last'.status = 200
                  => \E s \in SessionsOf(token) :
                       last'.out =
                         {[userId |-> s.userId, role |-> users[s.userId].role,
                           iat |-> now, exp |-> now + Seconds(AccessExpiry),
                           key |-> "JWT_ACCESS_SECRET"]}]_vars

\* an account suspended or deleted since its login was handed an access
\* credential, and its refresh credential still refreshes
C29_Witness ==
  /\ last.op = "refresh"
  /\ last.status = 200
  /\ \E t \in last.out :
        /\ t.iat = now
        /\ users[t.userId].accountStatus \in {"SUSPENDED", "DELETED"}
        /\ users[t.userId].lastLogin < now
        /\ t.role = users[t.userId].role
  /\ RefreshResponse(last.body.refreshToken).status = 200

\* the identity provider reports the email of `uid` as verified
ProviderVerified(auth, uid) == \E u \in auth : u.uid = uid /\ u.emailVerified

\* the `users` documents that are 'active' after the step and were not before
BecomeActive ==
  {d \in fsUsers' : /\ d.accountStatus = "active"
                    /\ \A e \in fsUsers :
                         e.uid = d.uid => e.accountStatus # "active"}

\* a login ends in this step for an account whose password was right and
\* whose email the identity provider reports as unverified
UnverifiedLogin(u) ==
  /\ call = NoCall /\ call' = NoCall
  /\ result' # result
  /\ result'.op = "login"
  /\ result'.args = [email |-> u.email, password |-> u.password]
  /\ ~u.emailVerified

====
